---- MODULE Spec2Model ----
(***************************************************************************)
(* Model of backend/app.py: the /recommend handler and the helpers it      *)
(* calls (classify_level, budget_fit_label, english_ok_for_course,         *)
(* compute_risk_flags, build_course_response, global_advice_from_results). *)
(*                                                                         *)
(* Python floats are held as integer tenths (8.2 is 82, 0.5 is 5), so the  *)
(* thresholds 1.0, 0.0, -0.5 of classify_level are 10, 0, -5 and           *)
(* total <= 0.8 * budget is 10 * total <= 8 * budget.  Python ints         *)
(* (backlogs_count, requested_count, max_backlogs) are plain integers.     *)
(***************************************************************************)
EXTENDS Integers, Sequences, FiniteSets, TLC

VARIABLES DB, COUNTRY_BY_CODE, pc, request, locals, response

vars == <<DB, COUNTRY_BY_CODE, pc, request, locals, response>>

----------------------------------------------------------------------------
(* Values *)

\* Python None: the value dict.get returns for an absent key
None == -1000

\* float("nan"): the float every comparison with which is False
NaN == -2000

\* Largest number of entries of DB["flat_courses"] explored
MaxCourses == 3

\* a >= b, a <= b, a > b, a < b on floats: False as soon as one side is NaN
Ge(a, b) == a # NaN /\ b # NaN /\ a >= b
Le(a, b) == a # NaN /\ b # NaN /\ a =< b
Gt(a, b) == a # NaN /\ b # NaN /\ a > b
Lt(a, b) == a # NaN /\ b # NaN /\ a < b

\* a - b and k * a on floats: NaN propagates
Sub(a, b) == IF a = NaN \/ b = NaN THEN NaN ELSE a - b
Mul(k, a) == IF a = NaN THEN NaN ELSE k * a

\* x or 0
OrZero(x) == IF x = None THEN 0 ELSE x

\* the first n elements of s: s[:n] for n >= 0
Take_one_more(s, n) == SubSeq(s, 1, IF n + 1 < Len(s) THEN n + 1 ELSE Len(s))

Take(s, n) == SubSeq(s, 1, IF n < Len(s) THEN n ELSE Len(s))

\* sum(1 for c in items if c["level_band"] == band)
CountBand(items, band) ==
    Cardinality({i \in 1..Len(items) : items[i].level_band = band})

----------------------------------------------------------------------------
(* JSON values of the request body.  A number or a numeric string carries  *)
(* its value n in tenths ("8.2" is Str(82)); a numeric string is written   *)
(* the shortest way, so an integral one has no decimal point ("2").        *)

Absent == [t |-> "absent", n |-> 0]
Null == [t |-> "null", n |-> 0]
Num(v) == [t |-> "num", n |-> v]
Str(v) == [t |-> "str", n |-> v]
NanStr == [t |-> "nanstr", n |-> 0]
BadStr == [t |-> "badstr", n |-> 0]
EmptyStr == [t |-> "emptystr", n |-> 0]
\* a list that is not empty
List == [t |-> "list", n |-> 0]

\* data.get(key, default)
Get(x, default) == IF x.t = "absent" THEN default ELSE x

\* truth value of a JSON value, as `x or y` tests it
Truthy(x) ==
    CASE x.t \in {"absent", "null", "emptystr"} -> FALSE
      [] x.t = "num" -> x.n # 0
      [] OTHER -> TRUE

\* float(x): <<exception, value in tenths>>
py_float(x) ==
    CASE x.t \in {"num", "str"} -> <<"", x.n>>
      [] x.t = "nanstr" -> <<"", NaN>>
      [] x.t \in {"badstr", "emptystr"} -> <<"ValueError", 0>>
      [] OTHER -> <<"TypeError", 0>>

\* int(x): <<exception, value>>; a number is truncated towards zero, a
\* string must be the decimal writing of an integer
py_int(x) ==
    CASE x.t = "num" ->
           <<"", IF x.n >= 0 THEN x.n \div 10 ELSE -((-x.n) \div 10)>>
      [] x.t = "str" ->
           IF x.n % 10 = 0 THEN <<"", x.n \div 10>> ELSE <<"ValueError", 0>>
      [] x.t \in {"nanstr", "badstr", "emptystr"} -> <<"ValueError", 0>>
      [] OTHER -> <<"TypeError", 0>>

\* try: v = conv(...)  except ValueError: v = 0
CatchValueError(r) == IF r[1] = "ValueError" THEN <<"", 0>> ELSE r

\* str.upper() and str.lower() on the strings the model sends
Upper(s) ==
    CASE s = "uk" -> "UK"
      [] s = "us" -> "US"
      [] s = "fr" -> "FR"
      [] OTHER -> s

Lower(s) ==
    CASE s = "IELTS" -> "ielts"
      [] s = "PTE" -> "pte"
      [] s = "Inter" -> "inter"
      [] OTHER -> s

\* month_from_intake_string on the strings the model sends
month_from_intake_string(intake_str) ==
    CASE intake_str = "" -> ""
      [] intake_str = "   " -> ""
      [] intake_str = "sep 2026" -> "Sep"
      [] intake_str = "Jan 2027" -> "Jan"
      [] intake_str = "Mar 2027" -> "Mar"
      [] intake_str = "september" -> "Sep"
      [] OTHER -> intake_str

----------------------------------------------------------------------------
(* Helper functions *)

classify_level_lax(cgpa, min_cgpa) ==
    IF min_cgpa = None THEN "unknown"
    ELSE LET diff == Sub(cgpa, min_cgpa)
         IN  IF Gt(diff, 10) THEN "safe"
             ELSE IF Ge(diff, 0) THEN "moderate"
             ELSE IF Gt(diff, -5) THEN "ambitious"
             ELSE "reject"

classify_level(cgpa, min_cgpa) ==
    IF min_cgpa = None THEN "unknown"
    ELSE LET diff == Sub(cgpa, min_cgpa)
         IN  IF Ge(diff, 10) THEN "safe"
             ELSE IF Ge(diff, 0) THEN "moderate"
             ELSE IF Ge(diff, -5) THEN "ambitious"
             ELSE "reject"

budget_fit_label_strict(total_cost, budget) ==
    IF Le(budget, 0) THEN "unknown"
    ELSE IF Lt(Mul(10, total_cost), Mul(8, budget)) THEN "very_comfortable"
    ELSE IF Lt(total_cost, budget) THEN "tight_but_possible"
    ELSE "over_budget"

budget_fit_label(total_cost, budget) ==
    IF Le(budget, 0) THEN "unknown"
    ELSE IF Le(Mul(10, total_cost), Mul(8, budget)) THEN "very_comfortable"
    ELSE IF Le(total_cost, budget) THEN "tight_but_possible"
    ELSE "over_budget"

\* <<english_ok, english_gap>>
english_ok_for_course(course, profile) ==
    LET proof == profile.english_proof_type
        score == profile.english_score
        min_ielts == course.min_ielts_overall
        min_pte == course.min_pte_overall
        min_duo == course.min_duolingo
        inter_ok == course.inter_english_ok
    IN  IF proof \in {"none", ""} THEN <<FALSE, TRUE>>
        ELSE IF proof = "ielts" THEN
            IF min_ielts = None THEN <<TRUE, FALSE>>
            ELSE <<Ge(score, min_ielts), Lt(score, min_ielts)>>
        ELSE IF proof = "pte" THEN
            IF min_pte = None THEN <<TRUE, FALSE>>
            ELSE <<Ge(score, min_pte), Lt(score, min_pte)>>
        ELSE IF proof = "duolingo" THEN
            IF min_duo = None THEN <<TRUE, FALSE>>
            ELSE <<Ge(score, min_duo), Lt(score, min_duo)>>
        ELSE IF proof \in {"inter", "medium"} THEN
            IF inter_ok
               /\ (IF profile.country_code \in DOMAIN COUNTRY_BY_CODE
                   THEN COUNTRY_BY_CODE[profile.country_code].allow_inter_english
                   ELSE FALSE)
            THEN <<TRUE, FALSE>>
            ELSE <<FALSE, TRUE>>
        ELSE <<FALSE, TRUE>>

compute_risk_flags(merged, profile, level_band, english_gap, budget_label) ==
    [budget_risk |-> budget_label = "over_budget",
     english_gap |-> english_gap,
     cgpa_gap |-> level_band = "ambitious",
     math_risk |-> merged.course.math_required /\ profile.non_math_background,
     workex_gap |-> Gt(OrZero(merged.course.work_exp_required_years),
                       profile.work_ex_years),
     visa_risk_high |-> merged.university.visa_risk = "high"]

\* the card, as a one-element sequence; <<>> is the None of a rejected course
build_course_response(merged, profile) ==
    LET course == merged.course
        cgpa == profile.cgpa
        min_cgpa == OrZero(course.min_cgpa_india)
        level_band == classify_level(cgpa, min_cgpa)
        tuition == OrZero(course.tuition_fee_lakhs)
        living == OrZero(course.estimated_living_lakhs)
        extra == OrZero(course.extra_costs_lakhs)
        total == tuition + living + extra
        budget_label == budget_fit_label(total, profile.budget_lakhs)
        eng == english_ok_for_course(course, profile)
        risks == compute_risk_flags(merged, profile, level_band, eng[2],
                                    budget_label)
    IN  IF level_band = "reject" THEN <<>>
        ELSE <<[course_id |-> course.id,
                country_code |-> merged.country_code,
                university_name |-> merged.university_name,
                subject_cluster |-> course.subject_cluster,
                level_band |-> level_band,
                tuition_fee_lakhs |-> tuition,
                estimated_living_lakhs |-> living,
                extra_costs_lakhs |-> extra,
                total_first_year_cost_lakhs |-> total,
                budget_label |-> budget_label,
                english_ok_now |-> eng[1],
                risk_flags |-> risks]>>

----------------------------------------------------------------------------
(* Advice texts *)

HeadlineNone == "No strong matches found in this country with current filters."
HeadlineSafe == "You have several SAFE options - shortlist 2-3 safe and keep 1-2 ambitious as backup."
HeadlineSop == "Most options are MODERATE or AMBITIOUS - you need strong projects, SOP and LORs."
StepImprove == "Try improving IELTS/PTE score, increasing budget, or exploring more teaching-focused universities."
StepOther == "You can also try a different country or slightly different course combination (e.g., general CS instead of AI-only)."
StepUK == "For the UK, track university application deadlines and CAS dates and always confirm latest UKVI visa rules."
StepUS == "For the US, check if GRE/GMAT is recommended for your course and plan applications 8-12 months before intake."
StepSop == "Prepare a strong SOP, updated CV, transcripts, and at least 1-2 solid LORs before you start applying."
EnglishTakeTest == "Taking IELTS / PTE / Duolingo will open many more universities and make visa stronger, even if some accept Inter/Medium English."
EnglishOkay == "Your chosen English test looks okay; just ensure you meet each course's minimum sub-scores."
BudgetOver == "Some options are above your current budget. Plan for extra funds, education loans or scholarships, or target lower-cost cities/universities."
BudgetFine == "Your budget seems reasonable for the recommended universities."
GapMaths == "Strengthen your maths and statistics basics - especially for Data Science / AI / Analytics programs."
GapWorkex == "More relevant full-time work experience will make your MBA / Project Management profile much stronger."

\* the headline chosen for a non-empty list
headline_safe_first(safe_count, mod_count, amb_count) ==
    IF safe_count >= 1 THEN HeadlineSafe
    ELSE IF mod_count > 0 \/ amb_count > 0 THEN HeadlineSop
    ELSE ""

headline_for(safe_count, mod_count, amb_count) ==
    IF safe_count >= 3 THEN HeadlineSafe
    ELSE IF mod_count > 0 \/ amb_count > 0 THEN HeadlineSop
    ELSE ""

\* the advice returned for an empty list
empty_advice_with_sop ==
    [headline |-> HeadlineNone,
     english_advice |-> "",
     budget_advice |-> "",
     profile_gaps |-> <<>>,
     next_steps |-> <<StepImprove, StepOther, StepSop>>]

empty_advice ==
    [headline |-> HeadlineNone,
     english_advice |-> "",
     budget_advice |-> "",
     profile_gaps |-> <<>>,
     next_steps |-> <<StepImprove, StepOther>>]

global_advice_from_results(country, profile, course_items) ==
    IF course_items = <<>> THEN empty_advice
    ELSE
    LET safe_count == CountBand(course_items, "safe")
        mod_count == CountBand(course_items, "moderate")
        amb_count == CountBand(course_items, "ambitious")
        needs_test == profile.english_proof_type \in {"none", "inter", "medium"}
        over_budget_count ==
            Cardinality({i \in 1..Len(course_items) :
                            course_items[i].budget_label = "over_budget"})
        any_math == \E i \in 1..Len(course_items) :
                        course_items[i].risk_flags.math_risk
        any_workex == \E i \in 1..Len(course_items) :
                          course_items[i].risk_flags.workex_gap
    IN  [headline |-> headline_for(safe_count, mod_count, amb_count),
         english_advice |-> IF needs_test THEN EnglishTakeTest ELSE EnglishOkay,
         budget_advice |-> IF over_budget_count > 0 THEN BudgetOver
                           ELSE BudgetFine,
         profile_gaps |-> (IF any_math THEN <<GapMaths>> ELSE <<>>)
                          \o (IF any_workex THEN <<GapWorkex>> ELSE <<>>),
         next_steps |-> (IF country.name = "United Kingdom" THEN <<StepUK>>
                         ELSE IF country.name = "United States" THEN <<StepUS>>
                         ELSE <<>>)
                        \o <<StepSop>>]

----------------------------------------------------------------------------
(* Ranking *)

\* level_order.get(band, 3)
level_order(band) ==
    CASE band = "safe" -> 0
      [] band = "moderate" -> 1
      [] band = "ambitious" -> 2
      [] OTHER -> 3

\* key(a) <= key(b) for the sort key (level rank, total cost)
sort_key_le_cost_only(a, b) ==
    a.total_first_year_cost_lakhs <= b.total_first_year_cost_lakhs

sort_key_le(a, b) ==
    \/ level_order(a.level_band) < level_order(b.level_band)
    \/ /\ level_order(a.level_band) = level_order(b.level_band)
       /\ a.total_first_year_cost_lakhs <= b.total_first_year_cost_lakhs

\* list.sort(key=...): stable, so an item goes after the items whose key is
\* no larger
RECURSIVE sort_items(_)
sort_items(items) ==
    IF items = <<>> THEN <<>>
    ELSE LET n == Len(items)
             c == items[n]
             s == sort_items(SubSeq(items, 1, n - 1))
             k == Cardinality({i \in 1..Len(s) : sort_key_le(s[i], c)})
         IN  SubSeq(s, 1, k) \o <<c>> \o SubSeq(s, k + 1, Len(s))

\* int(data.get("requested_count", 5) or 5): <<exception, value>>
parse_requested_count(raw) ==
    LET got == Get(raw, Num(50))
    IN  py_int(IF Truthy(got) THEN got ELSE Num(50))

\* max(1, min(requested_count, 15))
clamp_count_default_five(n) ==
    IF n <= 0 THEN 5
    ELSE IF n < 15 THEN n ELSE 15

clamp_count(n) ==
    LET m == IF n < 15 THEN n ELSE 15
    IN  IF m > 1 THEN m ELSE 1

\* the cards shown: the top N, plus one ambitious card when the top N has
\* none and the pool has one
select_always_append(sorted, ambitious_items, requested_count) ==
    LET top == Take(sorted, requested_count)
    IN  IF ambitious_items # <<>> THEN Append(top, ambitious_items[1])
        ELSE top

select_items(sorted, ambitious_items, requested_count) ==
    LET top == Take(sorted, requested_count)
    IN  IF /\ ~ \E i \in 1..Len(top) : top[i].level_band = "ambitious"
           /\ ambitious_items # <<>>
        THEN Append(top, ambitious_items[1])
        ELSE top

----------------------------------------------------------------------------
(* The /recommend handler *)

\* the elements of a sequence
Range(s) == {s[i] : i \in 1..Len(s)}

\* the hard filter: country + subject + backlogs + CGPA
keeps_ignoring_cgpa(merged, country_code, subject_clusters, backlogs, cgpa) ==
    LET course == merged.course
    IN  /\ merged.country_code = country_code
        /\ ~ (subject_clusters # <<>>
              /\ course.subject_cluster \notin Range(subject_clusters))
        /\ ~ (course.max_backlogs # None /\ backlogs > course.max_backlogs)
        /\ ~ (~ course.accepts_backlog_history /\ backlogs > 0)

keeps_backlogs_at_limit(merged, country_code, subject_clusters, backlogs, cgpa) ==
    LET course == merged.course
    IN  /\ merged.country_code = country_code
        /\ ~ (subject_clusters # <<>>
              /\ course.subject_cluster \notin Range(subject_clusters))
        /\ ~ (course.max_backlogs # None /\ backlogs >= course.max_backlogs)
        /\ ~ (~ course.accepts_backlog_history /\ backlogs > 0)
        /\ classify_level(cgpa, OrZero(course.min_cgpa_india)) # "reject"

keeps(merged, country_code, subject_clusters, backlogs, cgpa) ==
    LET course == merged.course
    IN  /\ merged.country_code = country_code
        /\ ~ (subject_clusters # <<>>
              /\ course.subject_cluster \notin Range(subject_clusters))
        /\ ~ (course.max_backlogs # None /\ backlogs > course.max_backlogs)
        /\ ~ (~ course.accepts_backlog_history /\ backlogs > 0)
        /\ classify_level(cgpa, OrZero(course.min_cgpa_india)) # "reject"

\* for merged in matches: item = build_course_response(...); if item: append
RECURSIVE build_items(_, _)
build_items(matches, profile) ==
    IF matches = <<>> THEN <<>>
    ELSE build_course_response(Head(matches), profile)
         \o build_items(Tail(matches), profile)

\* what the transport layer sends for an unknown country and for an
\* exception that leaves the handler
Reply400 == [status |-> 400, error |-> "Invalid or unsupported country_code"]
Raised(exc) == [status |-> 500, error |-> exc]

\* the handler: the response, and its local variables when it returns
recommend(data) ==
    LET country_code ==
            Upper(IF data.country_code = "" THEN "UK" ELSE data.country_code)
    IN
    IF country_code \notin DOMAIN COUNTRY_BY_CODE
    THEN [response |-> Reply400, locals |-> [exit |-> "400"]]
    ELSE
    LET country == COUNTRY_BY_CODE[country_code]
        cgpa == CatchValueError(py_float(Get(data.cgpa, Num(0))))
        budget_lakhs == CatchValueError(py_float(Get(data.budget_lakhs, Num(0))))
        backlogs == CatchValueError(py_int(Get(data.backlogs_count, Num(0))))
        work_ex_years == CatchValueError(py_float(Get(data.work_ex_years, Num(0))))
        english_score == CatchValueError(py_float(Get(data.english_score, Num(0))))
        coerced == <<cgpa, budget_lakhs, backlogs, work_ex_years, english_score>>
        failed == {i \in 1..5 : coerced[i][1] # ""}
    IN
    IF failed # {}
    THEN [response |-> Raised(coerced[CHOOSE i \in failed :
                                          \A j \in failed : i <= j][1]),
          locals |-> [exit |-> "raise"]]
    ELSE
    LET subject_clusters == SelectSeq(data.subject_clusters, LAMBDA c : c # "")
        profile ==
            [country_code |-> country_code,
             cgpa |-> cgpa[2],
             backlogs_count |-> backlogs[2],
             english_proof_type |-> Lower(data.english_proof_type),
             english_score |-> english_score[2],
             budget_lakhs |-> budget_lakhs[2],
             work_ex_years |-> work_ex_years[2],
             non_math_background |-> data.non_math_background,
             target_intake |-> data.target_intake,
             intake_month |-> month_from_intake_string(data.target_intake)]
        matches ==
            SelectSeq(DB.flat_courses,
                      LAMBDA m : keeps(m, country_code, subject_clusters,
                                       backlogs[2], cgpa[2]))
        pool == build_items(matches, profile)
        ambitious_items == SelectSeq(pool, LAMBDA c : c.level_band = "ambitious")
        sorted == sort_items(pool)
        parsed == parse_requested_count(data.requested_count)
    IN
    IF parsed[1] # ""
    THEN [response |-> Raised(parsed[1]), locals |-> [exit |-> "raise"]]
    ELSE
    LET requested_count == clamp_count(parsed[2])
        course_items == select_items(sorted, ambitious_items, requested_count)
        advice == global_advice_from_results(country, profile, course_items)
    IN  [response |->
            [status |-> 200,
             student_profile |-> profile,
             country |-> [code |-> country.code, name |-> country.name],
             stats |->
                [total_matches_before_limit |-> Len(matches),
                 total_shown |-> Len(course_items),
                 safe_count |-> CountBand(course_items, "safe"),
                 moderate_count |-> CountBand(course_items, "moderate"),
                 ambitious_count |-> CountBand(course_items, "ambitious")],
             recommendations |-> course_items,
             global_advice |-> advice],
         locals |->
            [exit |-> "return",
             matches |-> matches,
             pool |-> pool,
             ambitious_items |-> ambitious_items,
             parsed_count |-> parsed[2],
             requested_count |-> requested_count,
             truncated |-> Take(sorted, requested_count)]]

----------------------------------------------------------------------------
(* The catalog *)

\* course records of the catalog files: cluster, CGPA floor, backlog policy,
\* costs, English thresholds, other requirements
Course(cluster, min_cgpa, max_backlogs, accepts, tuition, living, extra, min_ielts, inter_ok, math, work_exp) ==
    [subject_cluster |-> cluster,
     min_cgpa_india |-> min_cgpa,
     max_backlogs |-> max_backlogs,
     accepts_backlog_history |-> accepts,
     tuition_fee_lakhs |-> tuition,
     estimated_living_lakhs |-> living,
     extra_costs_lakhs |-> extra,
     min_ielts_overall |-> min_ielts,
     min_pte_overall |-> None,
     min_duolingo |-> None,
     inter_english_ok |-> inter_ok,
     math_required |-> math,
     work_exp_required_years |-> work_exp,
     intakes |-> <<"Sep", "Jan">>]

\* <<country code, visa risk of the university, course>>
CourseSet ==
    { <<"UK", "low",
        Course("data_science", 70, None, TRUE, 150, 80, 20, 60, TRUE, TRUE, None)>>,
      <<"UK", "high",
        Course("data_science", 75, 2, TRUE, 120, 80, None, 65, FALSE, FALSE, None)>>,
      <<"UK", "low",
        Course("mba", 65, 0, TRUE, 200, 80, 20, None, TRUE, FALSE, 20)>>,
      <<"UK", "low",
        Course("ai", None, None, FALSE, 170, 80, None, 70, FALSE, TRUE, 0)>>,
      <<"US", "low",
        Course("data_science", 70, None, TRUE, 150, 80, 20, 65, FALSE, TRUE, None)>> }

\* the entry load_db builds for the i-th course of the catalog
Merged(t, i) ==
    [country_code |-> t[1],
     university_name |-> IF i % 2 = 1 THEN "University A" ELSE "University B",
     university |-> [visa_risk |-> t[2]],
     course |-> [id |-> i] @@ t[3]]

Country(code, name, allow) ==
    [code |-> code, name |-> name, allow_inter_english |-> allow]

\* the lookup table built from the catalog's countries
CountryTable(uk_allows, us_allows) ==
    [c \in {"UK", "US"} |->
        IF c = "UK" THEN Country("UK", "United Kingdom", uk_allows)
        ELSE Country("US", "United States", us_allows)]

Catalogs ==
    UNION { { [flat_courses |-> [i \in 1..n |-> Merged(ts[i], i)]] :
                ts \in [1..n -> CourseSet] } : n \in 0..MaxCourses }

----------------------------------------------------------------------------
(* Requests *)

BaseRequest ==
    [country_code |-> "UK",
     cgpa |-> Num(75),
     budget_lakhs |-> Num(300),
     backlogs_count |-> Num(0),
     work_ex_years |-> Absent,
     english_score |-> Num(65),
     english_proof_type |-> "ielts",
     non_math_background |-> FALSE,
     subject_clusters |-> <<>>,
     target_intake |-> "",
     requested_count |-> Absent]

JsonValues ==
    {Absent, Null, Num(0), Num(15), Num(75), Str(20), Str(82), NanStr, BadStr,
     EmptyStr, List}

RequestedCounts ==
    {Absent, Null, Num(0), Num(-30), Num(10), Num(20), Num(25), Num(1000),
     Str(20), Str(0), BadStr, EmptyStr, List}

\* requests that vary the ranking inputs
RankingRequests ==
    { [BaseRequest EXCEPT !.cgpa = g, !.requested_count = rc] :
        g \in {Num(65), Num(70), Num(75), Num(85)}, rc \in RequestedCounts }
    \cup { [BaseRequest EXCEPT !.country_code = cc, !.cgpa = g,
                               !.requested_count = rc] :
             cc \in {"", "uk", "us", "FR"}, g \in {Num(65), Num(85)},
             rc \in {Absent, Num(10)} }

\* requests that vary what is supplied for the numeric fields
CoercionRequests ==
    { [BaseRequest EXCEPT !.cgpa = v] : v \in JsonValues }
    \cup { [BaseRequest EXCEPT !.budget_lakhs = v] : v \in JsonValues }
    \cup { [BaseRequest EXCEPT !.backlogs_count = v] : v \in JsonValues }
    \cup { [BaseRequest EXCEPT !.work_ex_years = v] : v \in JsonValues }
    \cup { [BaseRequest EXCEPT !.english_score = v] : v \in JsonValues }
    \cup { [BaseRequest EXCEPT !.cgpa = a, !.budget_lakhs = b,
                               !.backlogs_count = c, !.english_score = d] :
             a \in {BadStr, Str(82)}, b \in {BadStr, Num(250)},
             c \in {BadStr, Str(15)}, d \in {BadStr, NanStr} }

\* requests that vary the filter inputs
FilterRequests ==
    { [BaseRequest EXCEPT !.backlogs_count = b, !.subject_clusters = sc,
                          !.cgpa = g, !.target_intake = ti] :
        b \in {Num(0), Num(10), Num(30)},
        sc \in {<<>>, <<"data_science">>, <<"", "mba", "ai">>},
        g \in {Num(60), Num(70), Num(80)},
        ti \in {"sep 2026", "Mar 2027"} }

\* requests that vary the inputs of the advice
AdviceRequests ==
    { [BaseRequest EXCEPT !.english_proof_type = p, !.budget_lakhs = b,
                          !.non_math_background = nm, !.work_ex_years = w] :
        p \in {"none", "IELTS", "inter", "toefl"},
        b \in {Absent, Num(250), Num(320)},
        nm \in BOOLEAN, w \in {Absent, Num(30)} }

Requests ==
    RankingRequests \cup CoercionRequests \cup FilterRequests \cup AdviceRequests

----------------------------------------------------------------------------
(* The server: the catalog is loaded once, then requests are served *)

Init ==
    /\ DB \in Catalogs
    /\ COUNTRY_BY_CODE = CountryTable(TRUE, FALSE)
    /\ pc = "ready"
    /\ request = <<>>
    /\ locals = <<>>
    /\ response = <<>>

\* a POST /recommend is handled
Recommend(data) ==
    LET r == recommend(data)
    IN  /\ pc = "ready"
        /\ request' = data
        /\ response' = r.response
        /\ locals' = r.locals
        /\ pc' = "done"
        /\ UNCHANGED <<DB, COUNTRY_BY_CODE>>

\* the response is sent and the server waits for the next request
Return ==
    /\ pc = "done"
    /\ pc' = "ready"
    /\ request' = <<>>
    /\ locals' = <<>>
    /\ response' = <<>>
    /\ UNCHANGED <<DB, COUNTRY_BY_CODE>>

Next ==
    \/ \E data \in Requests : Recommend(data)
    \/ Return

Spec == Init /\ [][Next]_vars

----------------------------------------------------------------------------
(* The helper functions on their own: Init draws the arguments, the action *)
(* applies the function.                                                   *)

NoCatalog ==
    /\ DB = [flat_courses |-> <<>>]
    /\ pc = "ready"
    /\ locals = <<>>
    /\ response = <<>>

CgpaInputs == (40..100) \cup {0, NaN}
MinCgpaInputs == (55..85) \cup {0, None}

InitClassify ==
    /\ NoCatalog
    /\ COUNTRY_BY_CODE = CountryTable(TRUE, FALSE)
    /\ request \in [cgpa : CgpaInputs, min_cgpa : MinCgpaInputs]

CallClassify ==
    /\ pc = "ready"
    /\ response' = classify_level(request.cgpa, request.min_cgpa)
    /\ pc' = "done"
    /\ UNCHANGED <<DB, COUNTRY_BY_CODE, request, locals>>

SpecClassify == InitClassify /\ [][CallClassify]_vars

TotalCostInputs == (0..50) \cup {240, 241, 250, 300, 301}
BudgetInputs == (-3..50) \cup {300, NaN}

InitBudget ==
    /\ NoCatalog
    /\ COUNTRY_BY_CODE = CountryTable(TRUE, FALSE)
    /\ request \in [total_cost : TotalCostInputs, budget : BudgetInputs]

CallBudget ==
    /\ pc = "ready"
    /\ response' = budget_fit_label(request.total_cost, request.budget)
    /\ pc' = "done"
    /\ UNCHANGED <<DB, COUNTRY_BY_CODE, request, locals>>

SpecBudget == InitBudget /\ [][CallBudget]_vars

ProofTypes ==
    {"", "none", "ielts", "pte", "duolingo", "inter", "medium", "toefl", "IELTS"}
ScoreInputs == {0, 55, 60, 65, 580, 1100, NaN}

InitEnglish ==
    /\ NoCatalog
    /\ COUNTRY_BY_CODE \in {CountryTable(a, b) : a, b \in BOOLEAN}
    /\ request \in
         [course : [min_ielts_overall : {None, 0, 60, 65},
                    min_pte_overall : {None, 580},
                    min_duolingo : {None, 1100},
                    inter_english_ok : BOOLEAN],
          profile : [english_proof_type : ProofTypes,
                     english_score : ScoreInputs,
                     country_code : {"UK", "US", "FR"}]]

CallEnglish ==
    /\ pc = "ready"
    /\ response' = english_ok_for_course(request.course, request.profile)
    /\ pc' = "done"
    /\ UNCHANGED <<DB, COUNTRY_BY_CODE, request, locals>>

SpecEnglish == InitEnglish /\ [][CallEnglish]_vars

----------------------------------------------------------------------------
(* Properties *)

\* the handler returned a normal response
Done200 == pc = "done" /\ response.status = 200

HasBand(items, band) == \E i \in 1..Len(items) : items[i].level_band = band

\* rank of a band in the order safe < moderate < ambitious < anything else
Rank(band) ==
    IF band = "safe" THEN 0
    ELSE IF band = "moderate" THEN 1
    ELSE IF band = "ambitious" THEN 2
    ELSE 3

\* C1: the recommendations of every response are sorted by (band rank, total
\* first-year cost) ascending: no card of a higher rank precedes one of a
\* lower rank, and within a band the cost is non-decreasing.
C1_Sorted ==
    Done200 =>
        LET r == response.recommendations
        IN  \A i, j \in 1..Len(r) :
                i < j =>
                    \/ Rank(r[i].level_band) < Rank(r[j].level_band)
                    \/ /\ Rank(r[i].level_band) = Rank(r[j].level_band)
                       /\ r[i].total_first_year_cost_lakhs
                              <= r[j].total_first_year_cost_lakhs

\* a response of three cards or more that holds two bands and two costs in
\* one band, built from a pool that was not in that order
C1_Witness ==
    /\ Done200
    /\ LET r == response.recommendations
       IN  /\ Len(r) >= 3
           /\ \E i, j \in 1..Len(r) :
                  /\ i < j
                  /\ r[i].level_band = r[j].level_band
                  /\ r[i].total_first_year_cost_lakhs
                         < r[j].total_first_year_cost_lakhs
           /\ \E i \in 1..Len(r) : r[i].level_band # r[1].level_band
           /\ Take(locals.pool, Len(r)) # r
           /\ Len(locals.pool) = Len(r)

\* C2: when the pool holds an ambitious card and the top N holds none, the
\* response is the top N followed by exactly one card, the first ambitious
\* card of the pool, and has N + 1 cards; otherwise it is the top N and has
\* at most N cards.  So a pool with an ambitious card always shows one.
C2_AmbitiousAppend ==
    Done200 =>
        LET pool == locals.pool
            top == locals.truncated
            N == locals.requested_count
            out == response.recommendations
        IN  /\ Len(top) = (IF N < Len(pool) THEN N ELSE Len(pool))
            /\ IF HasBand(pool, "ambitious") /\ ~ HasBand(top, "ambitious")
               THEN /\ Len(out) = N + 1
                    /\ SubSeq(out, 1, N) = top
                    /\ out[N + 1].level_band = "ambitious"
                    /\ out[N + 1] = locals.ambitious_items[1]
                    /\ \E i \in 1..Len(pool) : pool[i] = out[N + 1]
               ELSE /\ out = top
                    /\ Len(out) <= N
            /\ HasBand(pool, "ambitious") => HasBand(out, "ambitious")

\* an ambitious card was appended to a top N that had none
C2_Witness ==
    /\ Done200
    /\ HasBand(locals.pool, "ambitious")
    /\ ~ HasBand(locals.truncated, "ambitious")
    /\ Len(response.recommendations) = locals.requested_count + 1
    /\ locals.requested_count >= 2

\* the five numeric fields of a request are numbers or absent
NumericFieldsAreNumbers(data) ==
    \A v \in {data.cgpa, data.budget_lakhs, data.backlogs_count,
              data.work_ex_years, data.english_score} :
        v.t \in {"absent", "num"}

\* C3: whatever is supplied as requested_count, the handler completes
\* normally and truncates to a count in 1..15.
C3_CountClamped ==
    (pc = "done" /\ response.status # 400 /\ NumericFieldsAreNumbers(request))
        => /\ response.status = 200
           /\ locals.requested_count \in 1..15

\* C4: no record that survives the filter is below its course's floor by more
\* than 0.5, every survivor gets a card, every card shown is safe, moderate
\* or ambitious, and total_matches_before_limit counts the cards built.
C4_NoRejectSurvives ==
    Done200 =>
        LET m == locals.matches
            cgpa == response.student_profile.cgpa
            r == response.recommendations
        IN  /\ \A i \in 1..Len(m) :
                   /\ cgpa # NaN
                   /\ cgpa - OrZero(m[i].course.min_cgpa_india) >= -5
            /\ Len(locals.pool) = Len(m)
            /\ \A i \in 1..Len(locals.pool) :
                   locals.pool[i].course_id = m[i].course.id
            /\ \A i \in 1..Len(r) :
                   r[i].level_band \in {"safe", "moderate", "ambitious"}
            /\ response.stats.total_matches_before_limit = Len(locals.pool)

\* the filter dropped a course of the country for its floor alone and kept
\* one with a floor and one without
C4_Witness ==
    /\ Done200
    /\ \E i \in 1..Len(DB.flat_courses) :
           LET e == DB.flat_courses[i]
           IN  /\ e.country_code = response.student_profile.country_code
               /\ e.course.max_backlogs = None
               /\ e.course.min_cgpa_india # None
               /\ response.student_profile.cgpa - e.course.min_cgpa_india < -5
    /\ \E i \in 1..Len(locals.matches) :
           locals.matches[i].course.min_cgpa_india = None
    /\ \E i \in 1..Len(locals.matches) :
           locals.matches[i].course.min_cgpa_india # None
    /\ request.subject_clusters = <<>>

\* C5: classify_level is "unknown" exactly for a None floor, and otherwise
\* safe for diff >= 1.0, moderate for 0.0 <= diff < 1.0, ambitious for
\* -0.5 <= diff < 0.0 and reject for diff < -0.5, with diff = cgpa - floor.
C5_Bands ==
    pc = "done" =>
        LET c == request.cgpa
            m == request.min_cgpa
        IN  /\ (response = "unknown") <=> (m = None)
            /\ (m # None /\ c # NaN) =>
                   /\ (c - m >= 10) => response = "safe"
                   /\ (c - m >= 0 /\ c - m < 10) => response = "moderate"
                   /\ (c - m >= -5 /\ c - m < 0) => response = "ambitious"
                   /\ (c - m < -5) => response = "reject"

\* the lower edge of the ambitious band
C5_Witness ==
    /\ pc = "done"
    /\ request.cgpa = 70
    /\ request.min_cgpa = 75
    /\ response = "ambitious"

\* C6: budget_fit_label is unknown for a budget <= 0 whatever the cost, and
\* otherwise very_comfortable for total <= 0.8 * budget, tight_but_possible
\* for 0.8 * budget < total <= budget, over_budget for total > budget.
C6_BudgetLabel ==
    pc = "done" =>
        LET t == request.total_cost
            b == request.budget
        IN  /\ Le(b, 0) => response = "unknown"
            /\ Gt(b, 0) =>
                   /\ (10 * t <= 8 * b) => response = "very_comfortable"
                   /\ (10 * t > 8 * b /\ t <= b) => response = "tight_but_possible"
                   /\ (t > b) => response = "over_budget"

\* total 25 against budget 30
C6_Witness ==
    /\ pc = "done"
    /\ request.total_cost = 250
    /\ request.budget = 300
    /\ response = "tight_but_possible"

\* the pair the requirement check is to return
EnglishPair(course, profile, country_allows) ==
    LET proof == profile.english_proof_type
        score == profile.english_score
        floor == IF proof = "ielts" THEN course.min_ielts_overall
                 ELSE IF proof = "pte" THEN course.min_pte_overall
                 ELSE course.min_duolingo
        ok == IF proof \in {"ielts", "pte", "duolingo"}
              THEN floor = None \/ Ge(score, floor)
              ELSE IF proof \in {"inter", "medium"}
              THEN course.inter_english_ok /\ country_allows
              ELSE FALSE
    IN  <<ok, ~ ok>>

\* C7: english_ok_for_course returns (ok, not ok): (false, true) for no proof
\* or an unrecognized one; for ielts, pte, duolingo ok when the course sets no
\* minimum for the test or the score reaches it; for inter, medium ok when the
\* course and the profile's country both allow it.
C7_EnglishPair ==
    pc = "done" =>
        response =
            EnglishPair(request.course, request.profile,
                        request.profile.country_code \in DOMAIN COUNTRY_BY_CODE
                        /\ COUNTRY_BY_CODE[request.profile.country_code]
                               .allow_inter_english)

\* the same, for a score that is a number
C7_EnglishPairOfNumbers ==
    request.profile.english_score # NaN => C7_EnglishPair

\* C8: with a recognized country, whatever is supplied for the five numeric
\* fields, the handler returns a normal response, and a value that is neither
\* a number nor a numeric string counts as zero.
C8_NoRaise ==
    (/\ pc = "done"
     /\ response.status # 400
     /\ request.requested_count.t \in {"absent", "null", "num"})
        => /\ response.status = 200
           /\ LET p == response.student_profile
                  Zeroed(v, x) ==
                      v.t \in {"null", "badstr", "emptystr", "list"} => x = 0
              IN  /\ Zeroed(request.cgpa, p.cgpa)
                  /\ Zeroed(request.budget_lakhs, p.budget_lakhs)
                  /\ Zeroed(request.backlogs_count, p.backlogs_count)
                  /\ Zeroed(request.work_ex_years, p.work_ex_years)
                  /\ Zeroed(request.english_score, p.english_score)

\* C9: for an empty list the advice is the no-strong-matches headline, the
\* two fixed next steps in order, and nothing else.
C9_EmptyAdvice ==
    (Done200 /\ response.recommendations = <<>>) =>
        LET a == response.global_advice
        IN  /\ a.headline = HeadlineNone
            /\ a.next_steps = <<StepImprove, StepOther>>
            /\ a.english_advice = ""
            /\ a.budget_advice = ""
            /\ a.profile_gaps = <<>>

\* every course of the country was filtered out, for a profile whose proof
\* type would otherwise bring the take-a-test advice
C9_Witness ==
    /\ Done200
    /\ response.recommendations = <<>>
    /\ response.country.name = "United Kingdom"
    /\ \E i \in 1..Len(DB.flat_courses) :
           DB.flat_courses[i].country_code = "UK"
    /\ request.cgpa = Num(60)

\* C10: for a non-empty list the headline is the shortlist message with three
\* safe cards or more, else the strong-SOP message with a moderate or
\* ambitious card, else empty; it is empty exactly for one or two cards, all
\* safe.
C10_Headline ==
    (Done200 /\ response.recommendations # <<>>) =>
        LET r == response.recommendations
            h == response.global_advice.headline
            safe == Cardinality({i \in 1..Len(r) : r[i].level_band = "safe"})
        IN  /\ h = (IF safe >= 3 THEN HeadlineSafe
                    ELSE IF HasBand(r, "moderate") \/ HasBand(r, "ambitious")
                    THEN HeadlineSop
                    ELSE "")
            /\ (h = "") <=> (Len(r) \in {1, 2} /\ safe = Len(r))

\* two safe cards and no other: the blank headline
C10_Witness ==
    /\ Done200
    /\ Len(response.recommendations) = 2
    /\ \A i \in 1..2 : response.recommendations[i].level_band = "safe"
    /\ response.global_advice.headline = ""

\* the indices of the catalog entries the filter is to keep for a profile and
\* the requested clusters
Eligible(profile, clusters) ==
    {i \in 1..Len(DB.flat_courses) :
        LET e == DB.flat_courses[i]
            c == e.course
        IN  /\ e.country_code = profile.country_code
            /\ ~ (clusters # {} /\ c.subject_cluster \notin clusters)
            /\ ~ (c.max_backlogs # None
                  /\ profile.backlogs_count > c.max_backlogs)
            /\ ~ (~ c.accepts_backlog_history /\ profile.backlogs_count > 0)
            /\ profile.cgpa # NaN
            /\ profile.cgpa - OrZero(c.min_cgpa_india) >= -5}

\* C11: the filter keeps exactly the catalog entries of the profile's country
\* that are not outside the requested clusters, not over the course's backlog
\* limit, not barred by a no-backlog-history policy and not in the reject
\* band; they stay in catalog order, and the target intake plays no part.
C11_FilterExact ==
    Done200 =>
        LET m == locals.matches
            keep == Eligible(response.student_profile,
                             {c \in Range(request.subject_clusters) : c # ""})
        IN  /\ Len(m) = Cardinality(keep)
            /\ \A k \in 1..Len(m) :
                   /\ m[k].course.id \in keep
                   /\ m[k] = DB.flat_courses[m[k].course.id]
            /\ \A j, k \in 1..Len(m) :
                   j < k => m[j].course.id < m[k].course.id

\* a request for March, an intake no course offers, with three backlogs and
\* a cluster list: one entry kept, one dropped for its cluster and one, of a
\* requested cluster, for its backlog limit
C11_Witness ==
    /\ Done200
    /\ response.student_profile.intake_month = "Mar"
    /\ \A i \in 1..Len(DB.flat_courses) :
           "Mar" \notin Range(DB.flat_courses[i].course.intakes)
    /\ response.student_profile.backlogs_count = 3
    /\ request.subject_clusters # <<>>
    /\ Len(locals.matches) >= 1
    /\ \E i \in 1..Len(DB.flat_courses) :
           LET c == DB.flat_courses[i].course
           IN  /\ c.max_backlogs # None
               /\ c.max_backlogs < 3
               /\ c.subject_cluster \in Range(request.subject_clusters)
    /\ \E i \in 1..Len(DB.flat_courses) :
           DB.flat_courses[i].course.subject_cluster
               \notin Range(request.subject_clusters)

\* requested_count is not given: absent, null or the empty string
CountUnspecified == request.requested_count.t \in {"absent", "null", "emptystr"}

\* the integer requested_count parses to, when it is given
CountParsed == py_int(request.requested_count)[2]

\* C12 as stated: the truncation count is 5 when requested_count is
\* unspecified or parses to zero or less, and min(v, 15) for a positive v.
C12_DefaultWhenNonPositive ==
    Done200 =>
        IF CountUnspecified \/ CountParsed <= 0
        THEN locals.requested_count = 5
        ELSE locals.requested_count
                 = (IF CountParsed < 15 THEN CountParsed ELSE 15)

\* C12: the truncation count is 5 when requested_count is unspecified or is
\* the number 0; for any other value that parses to v it is 1 when v <= 0
\* and min(v, 15) when v > 0.
C12_DefaultOrClamp ==
    Done200 =>
        IF CountUnspecified \/ request.requested_count = Num(0)
        THEN locals.requested_count = 5
        ELSE IF CountParsed <= 0
        THEN locals.requested_count = 1
        ELSE locals.requested_count
                 = (IF CountParsed < 15 THEN CountParsed ELSE 15)

\* requested_count -3 truncates to one card
C12_Witness ==
    /\ Done200
    /\ request.requested_count = Num(-30)
    /\ locals.requested_count = 1
    /\ Len(locals.pool) >= 2
    /\ Len(locals.truncated) = 1

\* the triple a card stands for
Triple(c) == <<c.country_code, c.university_name, c.course_id>>

\* C13: the band counts add up to total_shown, which is the length of
\* recommendations, at most total_matches_before_limit and at most the
\* truncation count plus one (16 at most); no catalog triple is shown twice.
C13_StatsConsistent ==
    Done200 =>
        LET r == response.recommendations
            st == response.stats
        IN  /\ st.safe_count + st.moderate_count + st.ambitious_count
                   = st.total_shown
            /\ st.total_shown = Len(r)
            /\ st.safe_count
                   = Cardinality({i \in 1..Len(r) : r[i].level_band = "safe"})
            /\ st.moderate_count
                   = Cardinality({i \in 1..Len(r) : r[i].level_band = "moderate"})
            /\ st.ambitious_count
                   = Cardinality({i \in 1..Len(r) : r[i].level_band = "ambitious"})
            /\ st.total_shown <= st.total_matches_before_limit
            /\ st.total_shown <= locals.requested_count + 1
            /\ locals.requested_count + 1 <= 16
            /\ \A i, j \in 1..Len(r) : i # j => Triple(r[i]) # Triple(r[j])

\* a response of one card of each band, the ambitious one appended, from a
\* catalog with more entries than cards shown
C13_Witness ==
    /\ Done200
    /\ response.stats.safe_count = 1
    /\ response.stats.moderate_count = 1
    /\ response.stats.ambitious_count = 1
    /\ locals.requested_count = 2
    /\ response.stats.total_shown = 3
    /\ response.stats.total_matches_before_limit = 3

====
